---- MODULE Spec2Model ----
(***************************************************************************)
(* Model of the go-zsa client (package zsa, client.go): a thin wrapper     *)
(* around the Keymapp gRPC API.  Every public method is one action; the    *)
(* daemon's answer to each remote call is an input of the action.          *)
(***************************************************************************)
EXTENDS Integers, Sequences, FiniteSets, TLC

VARIABLES
    goos,        \* runtime.GOOS of the build
    client,      \* the *Client the caller holds, NoClient before Connect
    released,    \* number of Close calls the held grpc.ClientConn received
    closeCalls,  \* number of Client.Close calls the caller made
    last         \* the last call: method, arguments, replies, effects, result

vars == <<goos, client, released, closeCalls, last>>

(***************************************************************************)
(* Bounds of the model.                                                    *)
(***************************************************************************)
MaxLeds == 2
MaxCloses == 2

(***************************************************************************)
(* Strings.                                                                *)
(***************************************************************************)

\* strings.Contains(s, substr)
Contains(s, substr) ==
    \E i \in 1..(Len(s) - Len(substr) + 1) :
        SubSeq(s, i, i + Len(substr) - 1) = substr

\* index of the first path separator of s, 0 when there is none
FirstSeparator(s) ==
    IF \E i \in 1..Len(s) : SubSeq(s, i, i) = "/"
    THEN CHOOSE i \in 1..Len(s) :
            /\ SubSeq(s, i, i) = "/"
            /\ \A j \in 1..(i - 1) : SubSeq(s, j, j) # "/"
    ELSE 0

RECURSIVE Split(_)
\* the elements of a path between its separators
Split(s) ==
    LET i == FirstSeparator(s)
    IN  IF i = 0 THEN <<s>>
        ELSE <<SubSeq(s, 1, i - 1)>> \o Split(SubSeq(s, i + 1, Len(s)))

RECURSIVE CleanElements(_, _, _)
\* filepath.Clean on the elements of a path: drops empty and "." elements,
\* resolves ".." against the preceding element, drops ".." at the root
CleanElements(elems, out, rooted) ==
    IF elems = <<>> THEN out
    ELSE LET e == Head(elems)
             rest == Tail(elems)
         IN  IF e = "" \/ e = "." THEN CleanElements(rest, out, rooted)
             ELSE IF e = ".."
                  THEN IF out # <<>> /\ out[Len(out)] # ".."
                       THEN CleanElements(rest, SubSeq(out, 1, Len(out) - 1), rooted)
                       ELSE IF rooted THEN CleanElements(rest, out, rooted)
                            ELSE CleanElements(rest, Append(out, e), rooted)
                  ELSE CleanElements(rest, Append(out, e), rooted)

RECURSIVE JoinElements(_)
\* strings.Join(elems, "/")
JoinElements(elems) ==
    IF elems = <<>> THEN ""
    ELSE IF Len(elems) = 1 THEN elems[1]
         ELSE elems[1] \o "/" \o JoinElements(Tail(elems))

\* filepath.Clean(path)
Clean(path) ==
    IF path = "" THEN "."
    ELSE LET rooted == SubSeq(path, 1, 1) = "/"
             body == JoinElements(CleanElements(Split(path), <<>>, rooted))
         IN  IF rooted THEN "/" \o body
             ELSE IF body = "" THEN "." ELSE body

\* filepath.Join(a, b, c): the elements from the first non-empty one on,
\* joined by the separator and cleaned
FilepathJoin(a, b, c) ==
    IF a # "" THEN Clean(a \o "/" \o b \o "/" \o c)
    ELSE IF b # "" THEN Clean(b \o "/" \o c)
    ELSE IF c # "" THEN Clean(c)
    ELSE ""

(***************************************************************************)
(* Errors.  An error value is its dynamic kind, its Error() text and, for  *)
(* a joined error, the errors it holds.                                    *)
(***************************************************************************)
Nil == [kind |-> "nil", text |-> "", errs |-> <<>>]

\* a gRPC status error, as the generated client returns it
TransportError(text) == [kind |-> "transport", text |-> text, errs |-> <<>>]

\* errors.New(text)
ErrorsNew(text) == [kind |-> "errorString", text |-> text, errs |-> <<>>]

\* fmt.Errorf("unsuccessful %T", parameters)
ErrorfUnsuccessful(parameters) ==
    [kind |-> "errorString", text |-> "unsuccessful " \o parameters.type, errs |-> <<>>]

RECURSIVE JoinText(_)
\* joinError.Error(): the texts of the errors, separated by newlines
JoinText(errs) ==
    IF Len(errs) = 1 THEN errs[1].text
    ELSE errs[1].text \o "\n" \o JoinText(Tail(errs))

\* errors.Join(errs...): nil when no error is non-nil
ErrorsJoin(errs) ==
    LET nonNil == SelectSeq(errs, LAMBDA e : e # Nil)
    IN  IF nonNil = <<>> THEN Nil
        ELSE [kind |-> "join", text |-> JoinText(nonNil), errs |-> nonNil]

(***************************************************************************)
(* The daemon's answers.                                                   *)
(***************************************************************************)
AlreadyConnected == "keyboard already connected"
NotConnected == "no keyboard is connected"

TransportErrors ==
    { TransportError("rpc error: code = Unknown desc = " \o AlreadyConnected),
      TransportError("rpc error: code = Unknown desc = " \o NotConnected),
      TransportError("rpc error: code = Unavailable desc = connection refused") }

\* what a remote call returns: (T, error), T exposing GetSuccess()
Replies == [err : TransportErrors \cup {Nil}, success : BOOLEAN]

\* the answers to the requests of one SetRGBLed call: success, success=false,
\* a transport failure
LedReplies ==
    { [err |-> Nil, success |-> TRUE],
      [err |-> Nil, success |-> FALSE],
      [err |-> TransportError("rpc error: code = Unavailable desc = connection refused"),
       success |-> FALSE] }

(***************************************************************************)
(* Requests (package api): the %T type name and the fields set.            *)
(***************************************************************************)
Request(type, fields) == [type |-> "*api." \o type, fields |-> fields]

NoFields == [none |-> TRUE]

(***************************************************************************)
(* wrapSuccessToError: one invocation of the remote call, then the         *)
(* translation of (response, error) to an error.                           *)
(***************************************************************************)
\* variant: the success indicator of the response is not looked at
wrapSuccessToError_IgnoresFlag(rpc, reply, parameters) ==
    [ sent |-> << [rpc |-> rpc, req |-> parameters] >>,
      err  |-> reply.err ]

\* variant: a transport failure is wrapped with context before it is returned
wrapSuccessToError_WrapsError(rpc, reply, parameters) ==
    [ sent |-> << [rpc |-> rpc, req |-> parameters] >>,
      err  |-> IF reply.err # Nil
               THEN [kind |-> "wrapError",
                     text |-> "request failed: " \o reply.err.text,
                     errs |-> <<reply.err>>]
               ELSE IF ~reply.success THEN ErrorfUnsuccessful(parameters)
               ELSE Nil ]

\* variant: the test of the success indicator lacks its negation
wrapSuccessToError_Inverted(rpc, reply, parameters) ==
    [ sent |-> << [rpc |-> rpc, req |-> parameters] >>,
      err  |-> IF reply.err # Nil THEN reply.err
               ELSE IF reply.success THEN ErrorfUnsuccessful(parameters)
               ELSE Nil ]

wrapSuccessToError(rpc, reply, parameters) ==
    [ sent |-> << [rpc |-> rpc, req |-> parameters] >>,
      err  |-> IF reply.err # Nil THEN reply.err
               ELSE IF ~reply.success THEN ErrorfUnsuccessful(parameters)
               ELSE Nil ]

(***************************************************************************)
(* Colours (image/color).                                                  *)
(***************************************************************************)
Color(model, r, g, b, a) == [model |-> model, R |-> r, G |-> g, B |-> b, A |-> a]

\* the colours the caller passes: the red of demo/main.go (alpha left 0), an
\* opaque one, and a translucent colour that is not alpha-premultiplied
Colors ==
    { Color("RGBA", 255, 0, 0, 0),
      Color("RGBA", 1, 128, 255, 255),
      Color("NRGBA", 255, 128, 0, 128) }

\* v |= v << 8 on an 8-bit value held in a uint32
Widen(v) == v + v * 256

\* color.Color.RGBA(): color.RGBA widens its stored (premultiplied) channels,
\* color.NRGBA widens and then premultiplies by alpha
ColorRGBA(c) ==
    IF c.model = "RGBA"
    THEN [r |-> Widen(c.R), g |-> Widen(c.G), b |-> Widen(c.B), a |-> Widen(c.A)]
    ELSE [r |-> (Widen(c.R) * c.A) \div 255,
          g |-> (Widen(c.G) * c.A) \div 255,
          b |-> (Widen(c.B) * c.A) \div 255,
          a |-> Widen(c.A)]

\* the conversion int32(x) of a uint32: values from 2^31 up wrap to negative
ToInt32(x) ==
    IF x <= 2147483647 THEN x ELSE (x - 2147483647) - 2147483647 - 2

(***************************************************************************)
(* Arguments of the calls.                                                 *)
(***************************************************************************)
LedIds == {3, 7}
Layers == {0, 1}
KeyboardIds == {0, 1}

RECURSIVE SeqsOfLen(_, _)
SeqsOfLen(S, n) ==
    IF n = 0 THEN {<<>>}
    ELSE {Append(q, x) : q \in SeqsOfLen(S, n - 1), x \in S}

(***************************************************************************)
(* The methods of Client, as functions of their arguments and of the       *)
(* daemon's replies: the requests sent and the error returned.             *)
(***************************************************************************)

\* the post-filter of the connect and disconnect methods
\* variant: no error is recognised as benign
Suppress_Never(err, benign) == err

\* variant: the text is matched on its last word only
Suppress_AnyConnected(err, benign) ==
    IF err # Nil /\ ~Contains(err.text, "connected") THEN err ELSE Nil

Suppress(err, benign) ==
    IF err # Nil /\ ~Contains(err.text, benign) THEN err ELSE Nil

ConnectAnyKeyboardCall(reply) ==
    LET w == wrapSuccessToError("ConnectAnyKeyboard", reply,
                                Request("ConnectAnyKeyboardRequest", NoFields))
    IN  [sent |-> w.sent, err |-> Suppress(w.err, "keyboard already connected")]

ConnectKeyboardIndexCall(reply, id) ==
    LET w == wrapSuccessToError("ConnectKeyboard", reply,
                                Request("ConnectKeyboardRequest", [Id |-> id]))
    IN  [sent |-> w.sent, err |-> Suppress(w.err, "keyboard already connected")]

\* keyboard is an *api.Keyboard: [Id, FriendlyName]
ConnectKeyboardCall(reply, keyboard) == ConnectKeyboardIndexCall(reply, keyboard.Id)

\* variant: the benign text of the connect methods is tested for
DisconnectKeyboardCall_ConnectText(reply) ==
    LET w == wrapSuccessToError("DisconnectKeyboard", reply,
                                Request("DisconnectKeyboardRequest", NoFields))
    IN  [sent |-> w.sent, err |-> Suppress(w.err, "keyboard already connected")]

DisconnectKeyboardCall(reply) ==
    LET w == wrapSuccessToError("DisconnectKeyboard", reply,
                                Request("DisconnectKeyboardRequest", NoFields))
    IN  [sent |-> w.sent, err |-> Suppress(w.err, "no keyboard is connected")]

SetLayerCall(reply, layer) ==
    wrapSuccessToError("SetLayer", reply, Request("SetLayerRequest", [Layer |-> layer]))

UnsetLayerCall(reply, layer) ==
    wrapSuccessToError("UnsetLayer", reply, Request("SetLayerRequest", [Layer |-> layer]))

SetRGBLedRequest(color, led) ==
    LET c == ColorRGBA(color)
    IN  Request("SetRGBLedRequest",
                [Led |-> led, Red |-> ToInt32(c.r), Green |-> ToInt32(c.g),
                 Blue |-> ToInt32(c.b), Sustain |-> 0])

RECURSIVE SetRGBLedLoop_FailFast(_, _, _, _)
\* variant: the loop is left at the first request that fails
SetRGBLedLoop_FailFast(color, leds, replies, acc) ==
    IF leds = <<>> THEN acc
    ELSE LET w == wrapSuccessToError("SetRGBLed", Head(replies),
                                     SetRGBLedRequest(color, Head(leds)))
         IN  IF w.err # Nil
             THEN [sent |-> acc.sent \o w.sent, errs |-> Append(acc.errs, w.err)]
             ELSE SetRGBLedLoop_FailFast(color, Tail(leds), Tail(replies),
                      [sent |-> acc.sent \o w.sent, errs |-> acc.errs])

RECURSIVE SetRGBLedLoop(_, _, _, _)
\* the loop of SetRGBLed over leds: replies[i] answers the request for leds[i]
SetRGBLedLoop(color, leds, replies, acc) ==
    IF leds = <<>> THEN acc
    ELSE LET w == wrapSuccessToError("SetRGBLed", Head(replies),
                                     SetRGBLedRequest(color, Head(leds)))
         IN  SetRGBLedLoop(color, Tail(leds), Tail(replies),
                 [sent |-> acc.sent \o w.sent,
                  errs |-> IF w.err # Nil THEN Append(acc.errs, w.err) ELSE acc.errs])

SetRGBLedCall(replies, color, leds) ==
    LET loop == SetRGBLedLoop(color, leds, replies, [sent |-> <<>>, errs |-> <<>>])
    IN  [sent |-> loop.sent, err |-> ErrorsJoin(loop.errs)]

\* variant: the 8-bit fields of the colour are sent as they are stored
SetRGBAllRequest_EightBit(color) ==
    Request("SetRGBAllRequest",
            [Red |-> color.R, Green |-> color.G, Blue |-> color.B, Sustain |-> 0])

SetRGBAllRequest(color) ==
    LET c == ColorRGBA(color)
    IN  Request("SetRGBAllRequest",
                [Red |-> ToInt32(c.r), Green |-> ToInt32(c.g),
                 Blue |-> ToInt32(c.b), Sustain |-> 0])

SetRGBAllCall(reply, color) ==
    wrapSuccessToError("SetRGBAll", reply, SetRGBAllRequest(color))

SetStatusLEDCall(reply, led, on) ==
    wrapSuccessToError("SetStatusLed", reply,
                       Request("SetStatusLedRequest", [Led |-> led, On |-> on, Sustain |-> 0]))

IncreaseBrightnessCall(reply) ==
    wrapSuccessToError("IncreaseBrightness", reply,
                       Request("IncreaseBrightnessRequest", NoFields))

DecreaseBrightnessCall(reply) ==
    wrapSuccessToError("DecreaseBrightness", reply,
                       Request("DecreaseBrightnessRequest", NoFields))

\* *api.Keyboard values and the nil *api.ConnectedKeyboard
Keyboards == {[Id |-> id, FriendlyName |-> "Voyager"] : id \in KeyboardIds}
NoKeyboard == [Id |-> -1, FriendlyName |-> ""]

\* replies of the two pass-through queries
StatusReplies ==
    [err : {Nil, TransportError("rpc error: code = Unavailable desc = connection refused")},
     KeymappVersion : {"1.3.2"},
     ConnectedKeyboard : {NoKeyboard, [Id |-> 0, FriendlyName |-> "Voyager"]}]

KeyboardsReplies ==
    [err : {Nil, TransportError("rpc error: code = Unavailable desc = connection refused")},
     Keyboards : {<<>>, <<[Id |-> 0, FriendlyName |-> "Voyager"]>>}]

GetStatusCall(reply) ==
    [sent  |-> << [rpc |-> "GetStatus", req |-> Request("GetStatusRequest", NoFields)] >>,
     err   |-> reply.err,
     value |-> IF reply.err # Nil THEN <<"", NoKeyboard>>
               ELSE <<reply.KeymappVersion, reply.ConnectedKeyboard>>]

GetKeyboardsCall(reply) ==
    [sent  |-> << [rpc |-> "GetKeyboards", req |-> Request("GetKeyboardsRequest", NoFields)] >>,
     err   |-> reply.err,
     value |-> IF reply.err # Nil THEN <<>> ELSE reply.Keyboards]

(***************************************************************************)
(* Connection lifecycle.                                                   *)
(***************************************************************************)
NoClient == [client |-> 0, connection |-> 0]

GOOS == {"windows", "linux"}

\* values of CONFIG_DIR in the environment ConnectDefault is called in
ConfigDirs == {"", "/home/u", "/home/u/", "/", "cfg/../etc"}

Environments ==
    {[set |-> FALSE, value |-> ""]} \cup {[set |-> TRUE, value |-> v] : v \in ConfigDirs}

\* os.Getenv("CONFIG_DIR")
Getenv(e) == IF e.set THEN e.value ELSE ""

\* addresses an explicit Connect is given
Addresses == {"localhost:50051", "/tmp/keymapp.sock"}

\* outcomes of grpc.NewClient
DialErrors == {Nil, ErrorsNew("grpc: invalid target")}

\* the connection grpc.NewClient creates
ClientConn == 1

\* Connect(path): dialed is the target given to grpc.NewClient, dialErr its error
Connect(path, dialErr) ==
    [dialed |-> <<path>>,
     client |-> IF dialErr # Nil THEN NoClient
                ELSE [client |-> ClientConn, connection |-> ClientConn],
     err    |-> dialErr]

\* variant: an unset CONFIG_DIR is not checked for
ConnectDefaultCall_NoCheck(os, e, dialErr) ==
    IF os = "windows" THEN Connect("localhost:50051", dialErr)
    ELSE Connect(FilepathJoin(Getenv(e), ".keymapp", "keymapp.sock"), dialErr)

ConnectDefaultCall(os, e, dialErr) ==
    IF os = "windows" THEN Connect("localhost:50051", dialErr)
    ELSE LET config_dir == Getenv(e)
         IN  IF config_dir = ""
             THEN [dialed |-> <<>>, client |-> NoClient,
                   err |-> ErrorsNew("environment key \"CONFIG_DIR\" not set")]
             ELSE Connect(FilepathJoin(config_dir, ".keymapp", "keymapp.sock"), dialErr)

\* variant: only the first Close reaches the connection
CloseCall_Once(closed, connErr) ==
    [released |-> IF closed = 0 THEN 1 ELSE closed,
     err |-> IF closed = 0 THEN connErr ELSE Nil]

\* Close(): the call is handed to the connection, whose error is returned
CloseCall(closed, connErr) == [released |-> closed + 1, err |-> connErr]

CloseErrors == {Nil, TransportError("rpc error: code = Canceled desc = grpc: the client connection is closing")}

(***************************************************************************)
(* The state machine: one action per exported function or method.          *)
(***************************************************************************)
NoArgs == [none |-> TRUE]

Called(method, args, replies, sent, dialed, err, value) ==
    [method |-> method, args |-> args, replies |-> replies, sent |-> sent,
     dialed |-> dialed, err |-> err, value |-> value]

Init ==
    /\ goos \in GOOS
    /\ client = NoClient
    /\ released = 0
    /\ closeCalls = 0
    /\ last = Called("none", NoArgs, <<>>, <<>>, <<>>, Nil, <<>>)

Connected == client # NoClient

\* the record of a method call that sent call.sent and returned call.err
Returned(method, args, replies, call) ==
    Called(method, args, replies, call.sent, <<>>, call.err, <<>>)

DoConnect ==
    /\ ~Connected
    /\ \E path \in Addresses, dialErr \in DialErrors :
          LET r == Connect(path, dialErr)
          IN  /\ client' = r.client
              /\ last' = Called("Connect", [path |-> path], <<>>, <<>>, r.dialed, r.err, <<>>)
    /\ UNCHANGED <<goos, released, closeCalls>>

DoConnectDefault ==
    /\ ~Connected
    /\ \E e \in Environments, dialErr \in DialErrors :
          LET r == ConnectDefaultCall(goos, e, dialErr)
          IN  /\ client' = r.client
              /\ last' = Called("ConnectDefault", [env |-> e], <<>>, <<>>, r.dialed, r.err, <<>>)
    /\ UNCHANGED <<goos, released, closeCalls>>

GetStatus ==
    /\ Connected
    /\ \E reply \in StatusReplies :
          LET r == GetStatusCall(reply)
          IN  last' = Called("GetStatus", NoArgs, <<reply>>, r.sent, <<>>, r.err, r.value)
    /\ UNCHANGED <<goos, client, released, closeCalls>>

GetKeyboards ==
    /\ Connected
    /\ \E reply \in KeyboardsReplies :
          LET r == GetKeyboardsCall(reply)
          IN  last' = Called("GetKeyboards", NoArgs, <<reply>>, r.sent, <<>>, r.err, r.value)
    /\ UNCHANGED <<goos, client, released, closeCalls>>

ConnectAnyKeyboard ==
    /\ Connected
    /\ \E reply \in Replies :
          last' = Returned("ConnectAnyKeyboard", NoArgs, <<reply>>, ConnectAnyKeyboardCall(reply))
    /\ UNCHANGED <<goos, client, released, closeCalls>>

ConnectKeyboardIndex ==
    /\ Connected
    /\ \E reply \in Replies, id \in KeyboardIds :
          last' = Returned("ConnectKeyboardIndex", [id |-> id], <<reply>>,
              ConnectKeyboardIndexCall(reply, id))
    /\ UNCHANGED <<goos, client, released, closeCalls>>

ConnectKeyboard ==
    /\ Connected
    /\ \E reply \in Replies, keyboard \in Keyboards :
          last' = Returned("ConnectKeyboard", [keyboard |-> keyboard], <<reply>>,
              ConnectKeyboardCall(reply, keyboard))
    /\ UNCHANGED <<goos, client, released, closeCalls>>

DisconnectKeyboard ==
    /\ Connected
    /\ \E reply \in Replies :
          last' = Returned("DisconnectKeyboard", NoArgs, <<reply>>, DisconnectKeyboardCall(reply))
    /\ UNCHANGED <<goos, client, released, closeCalls>>

SetLayer ==
    /\ Connected
    /\ \E reply \in Replies, layer \in Layers :
          last' = Returned("SetLayer", [layer |-> layer], <<reply>>, SetLayerCall(reply, layer))
    /\ UNCHANGED <<goos, client, released, closeCalls>>

UnsetLayer ==
    /\ Connected
    /\ \E reply \in Replies, layer \in Layers :
          last' = Returned("UnsetLayer", [layer |-> layer], <<reply>>, UnsetLayerCall(reply, layer))
    /\ UNCHANGED <<goos, client, released, closeCalls>>

SetRGBLed ==
    /\ Connected
    /\ \E n \in 0..MaxLeds, color \in Colors :
          \E leds \in SeqsOfLen(LedIds, n), replies \in SeqsOfLen(LedReplies, n) :
              last' = Returned("SetRGBLed", [color |-> color, leds |-> leds], replies,
                               SetRGBLedCall(replies, color, leds))
    /\ UNCHANGED <<goos, client, released, closeCalls>>

SetRGBAll ==
    /\ Connected
    /\ \E reply \in Replies, color \in Colors :
          last' = Returned("SetRGBAll", [color |-> color], <<reply>>, SetRGBAllCall(reply, color))
    /\ UNCHANGED <<goos, client, released, closeCalls>>

SetStatusLED ==
    /\ Connected
    /\ \E reply \in Replies, led \in LedIds, on \in BOOLEAN :
          last' = Returned("SetStatusLED", [led |-> led, on |-> on], <<reply>>,
              SetStatusLEDCall(reply, led, on))
    /\ UNCHANGED <<goos, client, released, closeCalls>>

IncreaseBrightness ==
    /\ Connected
    /\ \E reply \in Replies :
          last' = Returned("IncreaseBrightness", NoArgs, <<reply>>, IncreaseBrightnessCall(reply))
    /\ UNCHANGED <<goos, client, released, closeCalls>>

DecreaseBrightness ==
    /\ Connected
    /\ \E reply \in Replies :
          last' = Returned("DecreaseBrightness", NoArgs, <<reply>>, DecreaseBrightnessCall(reply))
    /\ UNCHANGED <<goos, client, released, closeCalls>>

Close ==
    /\ Connected
    /\ closeCalls < MaxCloses
    /\ \E connErr \in CloseErrors :
          LET r == CloseCall(released, connErr)
          IN  /\ released' = r.released
              /\ last' = Called("Close", NoArgs, <<>>, <<>>, <<>>, r.err, <<>>)
    /\ closeCalls' = closeCalls + 1
    /\ UNCHANGED <<goos, client>>

Next ==
    \/ DoConnect
    \/ DoConnectDefault
    \/ GetStatus
    \/ GetKeyboards
    \/ ConnectAnyKeyboard
    \/ ConnectKeyboardIndex
    \/ ConnectKeyboard
    \/ DisconnectKeyboard
    \/ SetLayer
    \/ UnsetLayer
    \/ SetRGBLed
    \/ SetRGBAll
    \/ SetStatusLED
    \/ IncreaseBrightness
    \/ DecreaseBrightness
    \/ Close

Spec == Init /\ [][Next]_vars

(***************************************************************************)
(* Properties.                                                             *)
(***************************************************************************)

\* methods that return the result of wrapSuccessToError directly
DirectMethods ==
    {"SetLayer", "UnsetLayer", "SetRGBAll", "SetStatusLED",
     "IncreaseBrightness", "DecreaseBrightness"}

\* methods that connect to a keyboard
ConnectMethods == {"ConnectAnyKeyboard", "ConnectKeyboardIndex", "ConnectKeyboard"}

\* C1: when the remote call returns no transport error and a response whose
\* success indicator is false, the error that wrapSuccessToError returns is
\* non-nil and its text names the type of the request passed in (for
\* SetRGBLed: the error collected for that request).
C1_UnsuccessfulNamesRequestType ==
    LET failed(i) == last.replies[i].err # Nil \/ ~last.replies[i].success
        unsuccessful(i) == last.replies[i].err = Nil /\ ~last.replies[i].success
        nth(i) == Cardinality({j \in 1..i : failed(j)})
    IN  /\ last.method \in DirectMethods \cup ConnectMethods \cup {"DisconnectKeyboard"}
              /\ unsuccessful(1)
           => /\ last.err # Nil
              /\ last.err.text = "unsuccessful " \o last.sent[1].req.type
              /\ Contains(last.err.text, last.sent[1].req.type)
        /\ last.method = "SetRGBLed"
           => \A i \in 1..Len(last.replies) :
                 unsuccessful(i)
                 => /\ last.err # Nil
                    /\ Contains(last.err.errs[nth(i)].text, last.sent[i].req.type)

C1_Witness ==
    /\ last.method = "UnsetLayer"
    /\ last.replies = << [err |-> Nil, success |-> FALSE] >>
    /\ last.err.text = "unsuccessful *api.SetLayerRequest"

\* C2: when the remote call fails at the transport level, the error returned
\* is exactly that error value and the remote call was invoked exactly once,
\* whatever the response value is.
C2_TransportErrorUnchanged ==
    LET failed(i) == last.replies[i].err # Nil \/ ~last.replies[i].success
        nth(i) == Cardinality({j \in 1..i : failed(j)})
    IN  /\ last.method \in DirectMethods /\ last.replies[1].err # Nil
           => /\ last.err = last.replies[1].err
              /\ Len(last.sent) = 1
        /\ last.method \in ConnectMethods \cup {"DisconnectKeyboard"}
              /\ last.replies[1].err # Nil
           => /\ last.err \in {Nil, last.replies[1].err}
              /\ Len(last.sent) = 1
        /\ last.method = "SetRGBLed"
           => /\ Len(last.sent) = Len(last.replies)
              /\ \A i \in 1..Len(last.replies) :
                    last.replies[i].err # Nil
                    => last.err.errs[nth(i)] = last.replies[i].err

C2_Witness ==
    /\ last.method = "SetLayer"
    /\ last.replies[1].err \in TransportErrors
    /\ last.replies[1].success
    /\ last.err = last.replies[1].err
    /\ Len(last.sent) = 1

\* C3: when the remote call returns no transport error and a response whose
\* success indicator is true, SetLayer, UnsetLayer, SetRGBAll, SetStatusLED,
\* IncreaseBrightness and DecreaseBrightness return nil.
C3_SuccessReturnsNil ==
    /\ last.method \in DirectMethods
    /\ last.replies[1].err = Nil
    /\ last.replies[1].success
    => last.err = Nil

C3_Witness ==
    /\ last.method = "SetStatusLED"
    /\ last.replies = << [err |-> Nil, success |-> TRUE] >>
    /\ last.err = Nil

\* C4, as claimed: whenever the daemon answers ConnectAnyKeyboard,
\* ConnectKeyboardIndex or ConnectKeyboard with "keyboard already connected",
\* delivered as a transport error carrying that text or as a response with
\* success=false, the method returns nil.
C4_Original ==
    /\ last.method \in ConnectMethods
    /\ \/ Contains(last.replies[1].err.text, AlreadyConnected)
       \/ last.replies[1].err = Nil /\ ~last.replies[1].success
    => last.err = Nil

\* C4, amended: whenever the daemon answers ConnectAnyKeyboard,
\* ConnectKeyboardIndex or ConnectKeyboard with a transport error whose text
\* contains "keyboard already connected", the method returns nil; a response
\* with success=false is surfaced as the error "unsuccessful <request type>".
C4_AlreadyConnectedSuppressed ==
    /\ last.method \in ConnectMethods
          /\ Contains(last.replies[1].err.text, AlreadyConnected)
       => last.err = Nil
    /\ last.method \in ConnectMethods
          /\ last.replies[1].err = Nil /\ ~last.replies[1].success
       => last.err = ErrorsNew("unsuccessful " \o last.sent[1].req.type)

C4_Witness ==
    /\ last.method = "ConnectKeyboard"
    /\ last.replies[1].err =
          TransportError("rpc error: code = Unknown desc = keyboard already connected")
    /\ last.err = Nil

\* C5, as claimed: whenever the daemon answers DisconnectKeyboard with "no
\* keyboard is connected", delivered as a transport error carrying that text
\* or as a response with success=false, DisconnectKeyboard returns nil.
C5_Original ==
    /\ last.method = "DisconnectKeyboard"
    /\ \/ Contains(last.replies[1].err.text, NotConnected)
       \/ last.replies[1].err = Nil /\ ~last.replies[1].success
    => last.err = Nil

\* C5, amended: whenever the daemon answers DisconnectKeyboard with a
\* transport error whose text contains "no keyboard is connected",
\* DisconnectKeyboard returns nil; a response with success=false is surfaced
\* as the error "unsuccessful *api.DisconnectKeyboardRequest".
C5_NotConnectedSuppressed ==
    /\ last.method = "DisconnectKeyboard"
          /\ Contains(last.replies[1].err.text, NotConnected)
       => last.err = Nil
    /\ last.method = "DisconnectKeyboard"
          /\ last.replies[1].err = Nil /\ ~last.replies[1].success
       => last.err = ErrorsNew("unsuccessful *api.DisconnectKeyboardRequest")

C5_Witness ==
    /\ last.method = "DisconnectKeyboard"
    /\ last.replies[1].err =
          TransportError("rpc error: code = Unknown desc = no keyboard is connected")
    /\ last.err = Nil

\* C9: in the connect methods and in DisconnectKeyboard every error of
\* wrapSuccessToError other than the method's own benign one reaches the
\* caller unchanged: a transport error is dropped only when its text contains
\* the method's own benign text, and the error made from a success=false
\* response is never dropped.
C9_OtherErrorsPropagate ==
    LET own == IF last.method = "DisconnectKeyboard" THEN NotConnected
               ELSE AlreadyConnected
        reply == last.replies[1]
    IN  last.method \in ConnectMethods \cup {"DisconnectKeyboard"}
        => /\ reply.err # Nil /\ ~Contains(reply.err.text, own)
              => last.err = reply.err
           /\ reply.err = Nil /\ ~reply.success
              => /\ last.err.kind = "errorString"
                 /\ last.err.text = "unsuccessful " \o last.sent[1].req.type
           /\ last.err = Nil
              => \/ reply.err = Nil /\ reply.success
                 \/ Contains(reply.err.text, own)

C9_Witness ==
    /\ last.method = "ConnectKeyboardIndex"
    /\ last.replies[1].err =
          TransportError("rpc error: code = Unknown desc = no keyboard is connected")
    /\ last.err = last.replies[1].err

\* C6: SetRGBLed with N LEDs sends exactly N SetRGBLed requests, one per LED
\* in argument order, whatever fails; when exactly one request fails the
\* result is a non-nil aggregate holding exactly that failure; the result is
\* nil exactly when every request succeeded, also for N = 0.
C6_OneRequestPerLed ==
    LET leds == last.args.leds
        failed(i) == last.replies[i].err # Nil \/ ~last.replies[i].success
        failures == {i \in 1..Len(leds) : failed(i)}
    IN  last.method = "SetRGBLed"
        => /\ Len(last.sent) = Len(leds)
           /\ \A i \in 1..Len(leds) :
                 /\ last.sent[i].rpc = "SetRGBLed"
                 /\ last.sent[i].req.type = "*api.SetRGBLedRequest"
                 /\ last.sent[i].req.fields.Led = leds[i]
           /\ \A i \in failures :
                 failures = {i}
                 => /\ last.err # Nil
                    /\ last.err.kind = "join"
                    /\ Len(last.err.errs) = 1
                    /\ last.err.errs[1] =
                          IF last.replies[i].err # Nil THEN last.replies[i].err
                          ELSE ErrorsNew("unsuccessful *api.SetRGBLedRequest")
                    /\ last.err.text = last.err.errs[1].text
           /\ last.err = Nil <=> failures = {}

C6_Witness ==
    /\ last.method = "SetRGBLed"
    /\ last.args.leds = <<7, 3>>
    /\ last.replies[1].err # Nil
    /\ last.replies[2] = [err |-> Nil, success |-> TRUE]
    /\ Len(last.sent) = 2
    /\ last.sent[2].req.fields.Led = 3
    /\ last.err.errs = <<last.replies[1].err>>

\* C7: ConnectDefault off Windows with CONFIG_DIR unset or empty returns a nil
\* client and an error naming the variable, and dials nothing; on Windows it
\* dials localhost:50051 whatever the environment; otherwise it dials the
\* socket path CONFIG_DIR/.keymapp/keymapp.sock (the path in its cleaned form).
C7_ConnectDefault ==
    LET config_dir == Getenv(last.args.env)
        literal == config_dir \o "/.keymapp/keymapp.sock"
    IN  last.method = "ConnectDefault"
        => /\ goos # "windows" /\ config_dir = ""
              => /\ client = NoClient
                 /\ last.err # Nil
                 /\ Contains(last.err.text, "CONFIG_DIR")
                 /\ last.dialed = <<>>
           /\ goos = "windows" => last.dialed = <<"localhost:50051">>
           /\ goos # "windows" /\ config_dir # ""
              => /\ Len(last.dialed) = 1
                 /\ Clean(last.dialed[1]) = Clean(literal)
                 /\ Clean(literal) = literal => last.dialed[1] = literal
           /\ client = NoClient <=> last.err # Nil

C7_Witness ==
    /\ last.method = "ConnectDefault"
    /\ goos = "linux"
    /\ ~last.args.env.set
    /\ client = NoClient
    /\ last.err = ErrorsNew("environment key \"CONFIG_DIR\" not set")
    /\ last.dialed = <<>>

\* C8: no call other than Close releases or replaces the connection a Client
\* holds, and every Close call reaches the connection: the connection has
\* been closed as often as Close was called, once after a single Close and
\* again on a second Close.
C8_ReleasedByCloseOnly ==
    /\ [](released = closeCalls)
    /\ [][ /\ client # NoClient => client' = client
           /\ IF last'.method = "Close" /\ closeCalls' # closeCalls
              THEN released' = released + 1
              ELSE released' = released ]_vars

C8_Witness ==
    /\ last.method = "Close"
    /\ closeCalls = 2
    /\ released = 2

\* C10: SetRGBAll and SetRGBLed send as Red, Green and Blue the channel
\* values of the colour's RGBA(): 16-bit alpha-premultiplied values in
\* 0..65535, v*257 for an opaque 8-bit channel value v; alpha is not sent and
\* Sustain is 0.
C10_SixteenBitChannels ==
    LET c == last.args.color
        premultiplied(v) == IF c.model = "RGBA" THEN v * 257 ELSE (v * 257 * c.A) \div 255
    IN  last.method \in {"SetRGBAll", "SetRGBLed"}
        => \A i \in 1..Len(last.sent) :
              LET f == last.sent[i].req.fields
              IN  /\ f.Red = premultiplied(c.R)
                  /\ f.Green = premultiplied(c.G)
                  /\ f.Blue = premultiplied(c.B)
                  /\ {f.Red, f.Green, f.Blue} \subseteq 0..65535
                  /\ c.A = 255 => <<f.Red, f.Green, f.Blue>> = <<c.R * 257, c.G * 257, c.B * 257>>
                  /\ f.Sustain = 0
                  /\ DOMAIN f \subseteq {"Led", "Red", "Green", "Blue", "Sustain"}

C10_Witness ==
    /\ last.method = "SetRGBAll"
    /\ last.args.color = Color("RGBA", 255, 0, 0, 0)
    /\ last.sent[1].req.fields = [Red |-> 65535, Green |-> 0, Blue |-> 0, Sustain |-> 0]

====
